---- MODULE Spec2Model ----
(***************************************************************************)
(* Model of container-manager/run.js: the socket handlers start / stdin /  *)
(* stop, execCode with its createContainer / attach / stream callbacks,    *)
(* containerStdin and containerStop, running against a container runtime   *)
(* that addresses containers by name and keeps names unique.               *)
(*                                                                         *)
(* Every handler is cut at its awaits and callbacks: one action per        *)
(* synchronous stretch of code, and one action per request the runtime     *)
(* processes, so that requests of different handlers interleave as they do  *)
(* on the event loop.                                                      *)
(***************************************************************************)
EXTENDS Integers, Sequences, FiniteSets, TLC

\* ------------------------------------------------------------------ bounds
MaxCmds == 2                      \* commands received in one behaviour

Conns    == {"c1", "c2"}          \* sockets
Projects == {"pA", "pB"}          \* project identifiers
Absent   == "absent"              \* a missing / falsy field of a command
Tasks    == 0 .. MaxCmds          \* handler invocations: 1 .. MaxCmds for the
                                  \* commands of a behaviour, 0 for a start that
                                  \* was served before the behaviour begins
NoTask   == -1

VARIABLES
    cst,        \* cst[t]: state of the container created by start task t
    rooms,      \* rooms[c]: the rooms (project ids) socket c has joined
    tasks,      \* tasks[t]: the handler invocation of the t-th command
    ncmds,      \* number of commands received so far
    lastJoin,   \* history: the room of c's most recent socket.join
    last        \* history: what the most recent step did and emitted

vars == <<cst, rooms, tasks, ncmds, lastJoin, last>>

\* ------------------------------------------------------------ vocabulary
SupportedLanguages == {"python"}
Languages == {"python", "cobol", Absent}
Schools   == {"s1", Absent}
StdinData == {"x", "", Absent}

\* events with running:false
NotRunningEvents == {"end", "fail500", "stopack"}

Idle ==
    [kind |-> "none", conn |-> "none", pid |-> Absent, pc |-> "idle",
     res |-> "none", stream |-> "none", startReq |-> "none",
     kres |-> "none", rres |-> "none", seen |-> {},
     nTd |-> 0, nSave |-> 0, sent |-> <<>>, resolved |-> FALSE,
     inflight |-> {}]

NewTask(kind, c, pid, pc) ==
    [Idle EXCEPT !.kind = kind, !.conn = c, !.pid = pid, !.pc = pc]

\* `last` after a step that emits nothing and receives no command
Quiet ==
    [t |-> NoTask, ev |-> "none", to |-> {}, pid |-> Absent, cmd |-> <<>>,
     td |-> <<>>, wr |-> {}]

\* `last` after task t emitted event ev of project pid to the sockets `to`
Ev(t, ev, to, pid) == [Quiet EXCEPT !.t = t, !.ev = ev, !.to = to, !.pid = pid]

\* io.to(projectId): the sockets currently in the room
Members(r, p) == {c \in Conns : p \in r[c]}

\* live containers (created and not yet removed) named p
Live(t) == cst[t] \in {"created", "running", "exited"}
Named(p) == {t \in Tasks : tasks[t].kind = "start" /\ tasks[t].pid = p /\ Live(t)}

\* the next free task slot
Fresh == 1 + Cardinality({t \in 1 .. MaxCmds : tasks[t].kind # "none"})

Init ==
    /\ cst = [t \in Tasks |-> "none"]
    /\ rooms = [c \in Conns |-> {}]
    /\ tasks = [t \in Tasks |-> Idle]
    /\ ncmds = 0
    /\ lastJoin = [c \in Conns |-> "none"]
    /\ last = Quiet

\* A server that has already served one start: socket c1 is in room pA and
\* the container of that start is running with its output stream attached.
Served ==
    [NewTask("start", "c1", "pA", "relay") EXCEPT
        !.stream = "open", !.startReq = "ok", !.sent = <<"starting", "created">>]

InitRunning ==
    /\ cst = [t \in Tasks |-> IF t = 0 THEN "running" ELSE "none"]
    /\ rooms = [c \in Conns |-> IF c = "c1" THEN {"pA"} ELSE {}]
    /\ tasks = [t \in Tasks |-> IF t = 0 THEN Served ELSE Idle]
    /\ ncmds = 0
    /\ lastJoin = [c \in Conns |-> IF c = "c1" THEN "pA" ELSE "none"]
    /\ last = Quiet

\* ------------------------------------------------------- pure helpers
\* helpers.isValidLanguage
isValidLanguage(lang) == lang \in SupportedLanguages

\* run.js:124  !data.projectId || !isValidLanguage(data.language) || !data.schoolId
\* variant: the schoolId test left out
ValidStart_NoSchool(pid, lang, school) ==
    pid # Absent /\ isValidLanguage(lang)

ValidStart(pid, lang, school) ==
    pid # Absent /\ isValidLanguage(lang) /\ school # Absent

\* run.js:157  !data.projectId || !data.stdin   ("" is falsy)
ValidStdin(pid, data) == pid # Absent /\ data \notin {Absent, ""}

\* run.js:168  !data.projectId
ValidStop(pid) == pid # Absent

\* try { ... } catch (e) {} around kill and around remove: whatever the
\* outcome of the request, control continues at `next`.
\* variant: no try/catch, a failed request ends the handler
CaughtPc_Propagate(res, next) == IF res = "fail" THEN "fault" ELSE next

CaughtPc(res, next) == next

\* socket.leaveAll()
\* variant: earlier rooms are kept
LeaveAll_Keep(r, c) == r

LeaveAll(r, c) == [r EXCEPT ![c] = {}]

\* socket.join(room)
Join(r, c, p) == [r EXCEPT ![c] = @ \cup {p}]

\* the runtime's "name must be unique" rule, relied on by createContainer
\* variant: names are not kept unique
NameFree_Any(p) == TRUE

NameFree(p) == Named(p) = {}

\* if (err) in the createContainer callback
\* variant: err is not tested
CreateFailed_Ignored(res) == FALSE

CreateFailed(res) == res = "fail"

\* the stream of a container closes when its process ends or it is removed
EndStream(s) == IF s = "open" THEN "ended" ELSE s

\* ------------------------------------------------------------- start
\* socket.on('start'): validation failure, 400 to the socket, return
StartInvalid(c, pid, lang, school) ==
    /\ ncmds < MaxCmds
    /\ ncmds' = ncmds + 1
    /\ ~ValidStart(pid, lang, school)
    /\ last' = [Ev(NoTask, "400", {c}, pid) EXCEPT !.cmd = <<"start", c, pid, lang, school>>]
    /\ UNCHANGED <<cst, rooms, tasks, lastJoin>>

\* socket.on('start'): acknowledgement, cloneCode requested
StartValid(c, pid, lang, school) ==
    /\ ncmds < MaxCmds
    /\ ValidStart(pid, lang, school)
    /\ ncmds' = ncmds + 1
    /\ tasks' = [tasks EXCEPT ![Fresh] =
                    [NewTask("start", c, pid, "clone") EXCEPT !.seen = Named(pid)]]
    /\ last' = [Ev(Fresh, "ack", {c}, pid) EXCEPT !.cmd = <<"start", c, pid, lang, school>>]
    /\ UNCHANGED <<cst, rooms, lastJoin>>

\* catch (e) of cloneCode: 404 to the socket, return
\* variant: the rooms are left before the fetch is known to have failed
CloneFail_Leave(t) ==
    /\ tasks[t].kind = "start" /\ tasks[t].pc = "clone"
    /\ tasks' = [tasks EXCEPT ![t].pc = "done", ![t].resolved = TRUE, ![t].seen = {}]
    /\ rooms' = LeaveAll(rooms, tasks[t].conn)
    /\ last' = Ev(t, "404", {tasks[t].conn}, tasks[t].pid)
    /\ UNCHANGED <<cst, ncmds, lastJoin>>

CloneFail(t) ==
    /\ tasks[t].kind = "start" /\ tasks[t].pc = "clone"
    /\ tasks' = [tasks EXCEPT ![t].pc = "done", ![t].resolved = TRUE, ![t].seen = {}]
    /\ last' = Ev(t, "404", {tasks[t].conn}, tasks[t].pid)
    /\ UNCHANGED <<cst, rooms, ncmds, lastJoin>>

\* where the start handler continues once cloneCode has resolved:
\* await containerStop(data.projectId), whose first request is the kill
\* variant: containerStop is not called
AfterFetch_NoTeardown == "remove_resp"

AfterFetch == "kill_req"

CloneOk(t) ==
    /\ tasks[t].kind = "start" /\ tasks[t].pc = "clone"
    /\ tasks' = [tasks EXCEPT ![t].pc = AfterFetch]
    /\ last' = Quiet
    /\ UNCHANGED <<cst, rooms, ncmds, lastJoin>>

\* ------------------------------------------------------ containerStop
\* The runtime processes container.kill of the container named pid.
DockerKill(t) ==
    /\ tasks[t].pc \in {"kill_req", "ekill_req"}
    /\ LET hit == {u \in Named(tasks[t].pid) : cst[u] = "running"}
           nxt == IF tasks[t].pc = "kill_req" THEN "kill_resp" ELSE "ekill_resp"
       IN /\ cst' = [u \in Tasks |-> IF u \in hit THEN "exited" ELSE cst[u]]
          /\ tasks' = [u \in Tasks |->
                LET a == IF u \in hit
                         THEN [tasks[u] EXCEPT !.stream = EndStream(@)]
                         ELSE tasks[u]
                IN IF u = t
                   THEN [a EXCEPT !.pc = nxt,
                                  !.res = IF hit = {} THEN "fail" ELSE "ok"]
                   ELSE a]
    /\ last' = Quiet
    /\ UNCHANGED <<rooms, ncmds, lastJoin>>

\* after `await container.kill(...)`, caught: container.remove is requested
KillResp(t) ==
    /\ tasks[t].pc \in {"kill_resp", "ekill_resp"}
    /\ LET nxt == IF tasks[t].pc = "kill_resp" THEN "remove_req" ELSE "eremove_req"
       IN tasks' = [tasks EXCEPT ![t].pc = CaughtPc(tasks[t].res, nxt),
                                 ![t].kres = tasks[t].res,
                                 ![t].res = "none"]
    /\ last' = Quiet
    /\ UNCHANGED <<cst, rooms, ncmds, lastJoin>>

\* The runtime processes container.remove({force: true}) by name.
DockerRemove(t) ==
    /\ tasks[t].pc \in {"remove_req", "eremove_req"}
    /\ LET hit == Named(tasks[t].pid)
           nxt == IF tasks[t].pc = "remove_req" THEN "remove_resp" ELSE "eremove_resp"
       IN /\ cst' = [u \in Tasks |-> IF u \in hit THEN "removed" ELSE cst[u]]
          /\ tasks' = [u \in Tasks |->
                LET a == IF u \in hit
                         THEN [tasks[u] EXCEPT !.stream = EndStream(@)]
                         ELSE tasks[u]
                IN IF u = t
                   THEN [a EXCEPT !.pc = nxt,
                                  !.res = IF hit = {} THEN "fail" ELSE "ok"]
                   ELSE a]
    /\ last' = Quiet
    /\ UNCHANGED <<rooms, ncmds, lastJoin>>

\* ------------------------------------------- start, after containerStop
\* socket.leaveAll(); socket.join(projectId); execCode: 'Starting...' to the
\* room and docker.createContainer requested
StartAfterTeardown(t) ==
    /\ tasks[t].kind = "start" /\ tasks[t].pc = "remove_resp"
    /\ LET c == tasks[t].conn
           p == tasks[t].pid
           nxt == CaughtPc(tasks[t].res, "create_req")
           r2 == Join(LeaveAll(rooms, c), c, p)
       IN IF nxt = "fault"
          THEN /\ tasks' = [tasks EXCEPT ![t].pc = "fault", ![t].rres = tasks[t].res,
                                         ![t].res = "none"]
               /\ last' = Quiet
               /\ UNCHANGED <<rooms, lastJoin>>
          ELSE /\ rooms' = r2
               /\ lastJoin' = [lastJoin EXCEPT ![c] = p]
               /\ tasks' = [tasks EXCEPT ![t].pc = nxt, ![t].rres = tasks[t].res,
                                         ![t].res = "none",
                                         ![t].sent = <<"starting">>]
               /\ last' = Ev(t, "starting", Members(r2, p), p)
    /\ UNCHANGED <<cst, ncmds>>

\* The runtime processes createContainer({name: projectId, ...}).
DockerCreate(t) ==
    /\ tasks[t].pc = "create_req"
    /\ LET ok == NameFree(tasks[t].pid)
       IN /\ cst' = IF ok THEN [cst EXCEPT ![t] = "created"] ELSE cst
          /\ tasks' = [tasks EXCEPT ![t].pc = "create_resp",
                                    ![t].res = IF ok THEN "ok" ELSE "fail",
                                    ![t].kres = "none", ![t].rres = "none",
                                    ![t].seen = {}]
    /\ last' = Quiet
    /\ UNCHANGED <<rooms, ncmds, lastJoin>>

\* variant of the err branch: the `return` is missing, so the callback goes
\* on to container.start() and container.attach(...)
CreateErr_NoReturn(t) ==
    /\ tasks[t].pc = "create_resp"
    /\ CreateFailed(tasks[t].res)
    /\ LET to == Members(rooms, tasks[t].pid)
       IN /\ tasks' = [tasks EXCEPT ![t].pc = "attach_req", ![t].res = "none",
                                    ![t].startReq = "pending",
                                    ![t].sent = Append(@, "fail500"),
                                    ![t].resolved = @ \/ tasks[t].conn \in to]
          /\ last' = Ev(t, "fail500", to, tasks[t].pid)
    /\ UNCHANGED <<cst, rooms, ncmds, lastJoin>>

\* createContainer callback, err: status 500, running:false to the room
CreateErr(t) ==
    /\ tasks[t].pc = "create_resp"
    /\ CreateFailed(tasks[t].res)
    /\ LET to == Members(rooms, tasks[t].pid)
       IN /\ tasks' = [tasks EXCEPT ![t].pc = "done", ![t].res = "none",
                                    ![t].sent = Append(@, "fail500"),
                                    ![t].resolved = @ \/ tasks[t].conn \in to]
          /\ last' = Ev(t, "fail500", to, tasks[t].pid)
    /\ UNCHANGED <<cst, rooms, ncmds, lastJoin>>

\* createContainer callback, success: 'Container created! Mounting...',
\* container.start() and container.attach(...) requested
CreateOk(t) ==
    /\ tasks[t].pc = "create_resp"
    /\ ~CreateFailed(tasks[t].res)
    /\ tasks' = [tasks EXCEPT ![t].pc = "attach_req", ![t].res = "none",
                              ![t].startReq = "pending",
                              ![t].sent = Append(@, "created")]
    /\ last' = Ev(t, "created", Members(rooms, tasks[t].pid), tasks[t].pid)
    /\ UNCHANGED <<cst, rooms, ncmds, lastJoin>>

\* The runtime processes container.start() (its result is not looked at).
DockerStart(t) ==
    /\ tasks[t].startReq = "pending"
    /\ IF cst[t] = "created"
       THEN /\ cst' = [cst EXCEPT ![t] = "running"]
            /\ tasks' = [tasks EXCEPT ![t].startReq = "ok"]
       ELSE /\ cst' = cst
            /\ tasks' = [tasks EXCEPT ![t].startReq = "failed"]
    /\ last' = Quiet
    /\ UNCHANGED <<rooms, ncmds, lastJoin>>

\* The runtime processes container.attach({stream, stdout, stderr}).
DockerAttach(t) ==
    /\ tasks[t].pc = "attach_req"
    /\ tasks' = [tasks EXCEPT
            ![t].pc = "attach_resp",
            ![t].res = IF Live(t) THEN "ok" ELSE "fail",
            ![t].stream = IF cst[t] \in {"created", "running"} THEN "open"
                          ELSE IF cst[t] = "exited" THEN "ended" ELSE "none"]
    /\ last' = Quiet
    /\ UNCHANGED <<cst, rooms, ncmds, lastJoin>>

\* attach callback: stream.on('data'), stream.on('end') registered; with an
\* err the stream is undefined and stream.on throws out of the callback
AttachResp(t) ==
    /\ tasks[t].pc = "attach_resp"
    /\ tasks' = [tasks EXCEPT ![t].pc = IF tasks[t].res = "ok" THEN "relay" ELSE "fault",
                              ![t].res = "none"]
    /\ last' = Quiet
    /\ UNCHANGED <<cst, rooms, ncmds, lastJoin>>

\* the process in the container ends by itself (exit, or the timeout wrapper)
ContainerExit(t) ==
    /\ cst[t] = "running"
    /\ cst' = [cst EXCEPT ![t] = "exited"]
    /\ tasks' = [tasks EXCEPT ![t].stream = EndStream(@)]
    /\ last' = Quiet
    /\ UNCHANGED <<rooms, ncmds, lastJoin>>

\* stream.on('data'): one chunk, running:true, to the room
Data(t) ==
    /\ tasks[t].pc = "relay" /\ tasks[t].stream = "open" /\ cst[t] = "running"
    /\ tasks' = [tasks EXCEPT ![t].sent =
                    IF @[Len(@)] = "chunk" THEN @ ELSE Append(@, "chunk")]
    /\ last' = Ev(t, "chunk", Members(rooms, tasks[t].pid), tasks[t].pid)
    /\ UNCHANGED <<cst, rooms, ncmds, lastJoin>>

\* variant of stream.on('end'): the listener is not retired, so the callback
\* can run again for the same stream
StreamEnd_Again(t) ==
    /\ tasks[t].pc = "relay" /\ tasks[t].stream = "ended"
    /\ LET to == Members(rooms, tasks[t].pid)
       IN /\ tasks' = [tasks EXCEPT ![t].nTd = @ + 1,
                                    ![t].sent = Append(@, "end"),
                                    ![t].resolved = @ \/ tasks[t].conn \in to]
          /\ last' = Ev(t, "end", to, tasks[t].pid)
    /\ UNCHANGED <<cst, rooms, ncmds, lastJoin>>

\* stream.on('end'): running:false to the room, containerStop begins
StreamEnd(t) ==
    /\ tasks[t].pc = "relay" /\ tasks[t].stream = "ended"
    /\ LET to == Members(rooms, tasks[t].pid)
       IN /\ tasks' = [tasks EXCEPT ![t].pc = "ekill_req", ![t].stream = "closed",
                                    ![t].nTd = @ + 1,
                                    ![t].sent = Append(@, "end"),
                                    ![t].resolved = @ \/ tasks[t].conn \in to]
          /\ last' = Ev(t, "end", to, tasks[t].pid)
    /\ UNCHANGED <<cst, rooms, ncmds, lastJoin>>

\* stream.on('end') after `await containerStop`: saveChanges is called
\* variant: a failed remove escapes containerStop
EndAfterTeardown_RemoveThrows(t) ==
    /\ tasks[t].kind = "start" /\ tasks[t].pc = "eremove_resp"
    /\ LET nxt == CaughtPc_Propagate(tasks[t].res, "save")
       IN tasks' = [tasks EXCEPT ![t].pc = nxt, ![t].rres = tasks[t].res,
                                 ![t].res = "none",
                                 ![t].nSave = IF nxt = "save" THEN @ + 1 ELSE @]
    /\ last' = Quiet
    /\ UNCHANGED <<cst, rooms, ncmds, lastJoin>>

EndAfterTeardown(t) ==
    /\ tasks[t].kind = "start" /\ tasks[t].pc = "eremove_resp"
    /\ LET nxt == CaughtPc(tasks[t].res, "save")
       IN tasks' = [tasks EXCEPT ![t].pc = nxt, ![t].rres = tasks[t].res,
                                 ![t].res = "none",
                                 ![t].nSave = IF nxt = "save" THEN @ + 1 ELSE @]
    /\ last' = Quiet
    /\ UNCHANGED <<cst, rooms, ncmds, lastJoin>>

\* saveChanges resolves; the end callback is over
SaveDone(t) ==
    /\ tasks[t].pc = "save"
    /\ tasks' = [tasks EXCEPT ![t].pc = "done", ![t].kres = "none", ![t].rres = "none"]
    /\ last' = Quiet
    /\ UNCHANGED <<cst, rooms, ncmds, lastJoin>>

\* -------------------------------------------------------------- stop
\* socket.on('stop'): projectId missing, 400 to the socket, return
StopInvalid(c, pid) ==
    /\ ncmds < MaxCmds
    /\ ncmds' = ncmds + 1
    /\ ~ValidStop(pid)
    /\ last' = [Ev(NoTask, "400", {c}, pid) EXCEPT !.cmd = <<"stop", c, pid>>]
    /\ UNCHANGED <<cst, rooms, tasks, lastJoin>>

\* socket.on('stop'): containerStop begins
\* variant: the acknowledgement is emitted without containerStop
StopValid_AckFirst(c, pid) ==
    /\ ncmds < MaxCmds
    /\ ValidStop(pid)
    /\ ncmds' = ncmds + 1
    /\ tasks' = [tasks EXCEPT ![Fresh] =
                    [NewTask("stop", c, pid, "done") EXCEPT !.resolved = TRUE]]
    /\ last' = [Ev(Fresh, "stopack", {c}, pid)
                    EXCEPT !.cmd = <<"stop", c, pid>>, !.td = <<"none", "none">>]
    /\ UNCHANGED <<cst, rooms, lastJoin>>

StopValid(c, pid) ==
    /\ ncmds < MaxCmds
    /\ ValidStop(pid)
    /\ ncmds' = ncmds + 1
    /\ tasks' = [tasks EXCEPT ![Fresh] = NewTask("stop", c, pid, "kill_req")]
    /\ last' = [Quiet EXCEPT !.t = Fresh, !.pid = pid, !.cmd = <<"stop", c, pid>>]
    /\ UNCHANGED <<cst, rooms, lastJoin>>

\* history: the starts of pid that are between their own containerStop and
\* the creation of their container (createContainer requested, not answered)
InFlight(pid) ==
    {u \in Tasks : tasks[u].kind = "start" /\ tasks[u].pid = pid
                      /\ tasks[u].pc = "create_req"}

\* variant of the stop handler: the socket also leaves its rooms
StopAfterTeardown_Leave(t) ==
    /\ tasks[t].kind = "stop" /\ tasks[t].pc = "remove_resp"
    /\ tasks' = [tasks EXCEPT ![t].pc = "done", ![t].res = "none",
                              ![t].kres = "none", ![t].resolved = TRUE,
                              ![t].inflight = InFlight(tasks[t].pid)]
    /\ rooms' = LeaveAll(rooms, tasks[t].conn)
    /\ last' = [Ev(t, "stopack", {tasks[t].conn}, tasks[t].pid)
                   EXCEPT !.td = <<tasks[t].kres, tasks[t].res>>]
    /\ UNCHANGED <<cst, ncmds, lastJoin>>

\* socket.on('stop') after `await containerStop`: running:false to the socket
StopAfterTeardown(t) ==
    /\ tasks[t].kind = "stop" /\ tasks[t].pc = "remove_resp"
    /\ LET nxt == CaughtPc(tasks[t].res, "done")
       IN IF nxt = "fault"
          THEN /\ tasks' = [tasks EXCEPT ![t].pc = "fault", ![t].rres = tasks[t].res,
                                         ![t].res = "none"]
               /\ last' = Quiet
          ELSE /\ tasks' = [tasks EXCEPT ![t].pc = nxt, ![t].res = "none",
                                         ![t].kres = "none", ![t].resolved = TRUE,
                                         ![t].inflight = InFlight(tasks[t].pid)]
               /\ last' = [Ev(t, "stopack", {tasks[t].conn}, tasks[t].pid)
                              EXCEPT !.td = <<tasks[t].kres, tasks[t].res>>]
    /\ UNCHANGED <<cst, rooms, ncmds, lastJoin>>

\* ------------------------------------------------------------- stdin
\* socket.on('stdin'): projectId or stdin missing, 400 to the socket, return
StdinInvalid(c, pid, data) ==
    /\ ncmds < MaxCmds
    /\ ncmds' = ncmds + 1
    /\ ~ValidStdin(pid, data)
    /\ last' = [Ev(NoTask, "400", {c}, pid) EXCEPT !.cmd = <<"stdin", c, pid, data>>]
    /\ UNCHANGED <<cst, rooms, tasks, lastJoin>>

\* socket.on('stdin') -> containerStdin: attach({stdin, hijack}) requested
StdinValid(c, pid, data) ==
    /\ ncmds < MaxCmds
    /\ ValidStdin(pid, data)
    /\ ncmds' = ncmds + 1
    /\ tasks' = [tasks EXCEPT ![Fresh] = NewTask("stdin", c, pid, "sattach_req")]
    /\ last' = [Quiet EXCEPT !.t = Fresh, !.pid = pid, !.cmd = <<"stdin", c, pid, data>>]
    /\ UNCHANGED <<cst, rooms, lastJoin>>

\* containerStdin's attach callback: if (stream) the data is written to the
\* container named pid and the stream ended; nothing is emitted either way
StdinAttach(t) ==
    /\ tasks[t].pc = "sattach_req"
    /\ LET hit == {u \in Named(tasks[t].pid) : cst[u] \in {"created", "running"}}
       IN /\ tasks' = [tasks EXCEPT ![t].pc = "done"]
          /\ last' = [Quiet EXCEPT !.t = t, !.pid = tasks[t].pid, !.wr = hit]
    /\ UNCHANGED <<cst, rooms, ncmds, lastJoin>>

\* ------------------------------------------------------ specification
Next ==
    \/ \E c \in Conns, pid \in Projects \cup {Absent}, lang \in Languages,
          school \in Schools :
            \/ StartInvalid(c, pid, lang, school)
            \/ StartValid(c, pid, lang, school)
    \/ \E c \in Conns, pid \in Projects \cup {Absent} :
            \/ StopInvalid(c, pid)
            \/ StopValid(c, pid)
    \/ \E c \in Conns, pid \in Projects \cup {Absent}, data \in StdinData :
            \/ StdinInvalid(c, pid, data)
            \/ StdinValid(c, pid, data)
    \/ \E t \in Tasks :
            \/ CloneFail(t)
            \/ CloneOk(t)
            \/ DockerKill(t)
            \/ KillResp(t)
            \/ DockerRemove(t)
            \/ StartAfterTeardown(t)
            \/ DockerCreate(t)
            \/ CreateErr(t)
            \/ CreateOk(t)
            \/ DockerStart(t)
            \/ DockerAttach(t)
            \/ AttachResp(t)
            \/ ContainerExit(t)
            \/ Data(t)
            \/ StreamEnd(t)
            \/ EndAfterTeardown(t)
            \/ SaveDone(t)
            \/ StopAfterTeardown(t)
            \/ StdinAttach(t)

Spec == Init /\ [][Next]_vars

\* the same server, observed from a moment at which one sandbox is running
SpecRunning == InitRunning /\ [][Next]_vars

TypeOK ==
    /\ ncmds \in 0 .. MaxCmds
    /\ \A t \in Tasks : cst[t] \in {"none", "created", "running", "exited", "removed"}
    /\ \A c \in Conns : rooms[c] \subseteq Projects
    /\ \A t \in 1 .. MaxCmds : t >= Fresh => tasks[t] = Idle
    /\ Fresh <= ncmds + 1

\* ================================================================ claims
StartTasks == {t \in Tasks : tasks[t].kind = "start"}
StopTasks  == {t \in Tasks : tasks[t].kind = "stop"}

\* C1: in every reachable state at most one sandbox (created and not yet
\* removed) exists for each project identifier.
C1_AtMostOneSandbox ==
    \A p \in Projects : Cardinality(Named(p)) <= 1

\* C1 witness: two starts raced for one name, and the second createContainer
\* was refused while the first sandbox exists.
C1_Witness ==
    \E t \in StartTasks :
        /\ tasks[t].pc = "create_resp" /\ tasks[t].res = "fail"
        /\ Named(tasks[t].pid) # {}

\* C2: when a start handler has issued its creation request, both teardown
\* steps (kill, then remove) of its containerStop have been answered, and
\* every sandbox of that projectId that existed when the start command was
\* received has been removed.
C2_TeardownBeforeCreate ==
    \A t \in StartTasks :
        tasks[t].pc = "create_req" =>
            /\ tasks[t].kres # "none"
            /\ tasks[t].rres # "none"
            /\ \A u \in tasks[t].seen : cst[u] = "removed"

\* C2 witness: a second start for a projectId whose first sandbox existed has
\* removed it and now has its creation request out.
C2_Witness ==
    \E t \in StartTasks :
        /\ tasks[t].pc = "create_req"
        /\ tasks[t].seen # {}
        /\ tasks[t].rres = "ok"

\* the project named by the most recent start command of c that passed
\* validation
LastStart(c) ==
    LET mine == {t \in StartTasks : tasks[t].conn = c}
    IN IF mine = {} THEN "none"
       ELSE tasks[CHOOSE t \in mine : \A u \in mine : u <= t].pid

\* C3 as stated: once a connection has issued start for project B, no output
\* event of another project A is delivered to it, whatever the start does:
\* every output chunk goes only to connections whose latest start names the
\* chunk's project.
C3_NoOutputAfterStartIssued ==
    last.ev = "chunk" => \A c \in last.to : LastStart(c) = last.pid

\* C3 amended: no output event of project A is delivered to a connection
\* whose most recent join (done by a start handler after its code fetch and
\* teardown) was to another project.
C3_NoOutputAfterJoin ==
    last.ev = "chunk" => \A c \in last.to : lastJoin[c] = last.pid

\* C3 witness: a connection that had joined project A has since joined B, and
\* a chunk of A is emitted without reaching it.
C3_Witness ==
    /\ last.ev = "chunk"
    /\ \E c \in Conns :
        /\ c \notin last.to
        /\ lastJoin[c] \in Projects \ {last.pid}
        /\ \E t \in StartTasks :
              tasks[t].conn = c /\ tasks[t].pid = last.pid /\ tasks[t].sent # <<>>

\* C4: every end of a sandbox's output stream is followed by exactly one
\* Teardown invocation and then exactly one saveChanges call: the end callback
\* starts one containerStop, calls saveChanges once, only after both teardown
\* requests were answered, and never finishes without having called it.
C4_OneTeardownOneSave ==
    \A t \in StartTasks :
        /\ tasks[t].nTd = (IF tasks[t].stream = "closed" THEN 1 ELSE 0)
        /\ tasks[t].nSave <= tasks[t].nTd
        /\ tasks[t].pc = "save" =>
              tasks[t].nSave = 1 /\ tasks[t].kres # "none" /\ tasks[t].rres # "none"
        /\ (tasks[t].stream = "closed" /\ tasks[t].pc \in {"done", "fault"}) =>
              tasks[t].nSave = 1
        /\ tasks[t].nSave = 1 => tasks[t].pc \in {"save", "done"}

\* C4 witness: a stop of the same projectId removed the sandbox while the
\* stream-end teardown was under way (its kill and remove both failed), and
\* saveChanges has been called all the same.
C4_Witness ==
    \E t \in StartTasks, s \in StopTasks :
        /\ tasks[s].pid = tasks[t].pid
        /\ tasks[t].pc = "save"
        /\ tasks[t].kres = "fail" /\ tasks[t].rres = "fail"

\* the orders in which execCode emits the events of one start
SentOrders ==
    { <<>>, <<"starting">>, <<"starting", "fail500">>, <<"starting", "created">>,
      <<"starting", "created", "chunk">>, <<"starting", "created", "end">>,
      <<"starting", "created", "chunk", "end">> }

\* a start whose sandbox was provisioned and whose output stream is not over
Provisioned(t) ==
    /\ Len(tasks[t].sent) >= 2 /\ tasks[t].sent[2] = "created"
    /\ cst[t] \in {"created", "running"}
    /\ tasks[t].stream \in {"none", "open"}

\* C5 as stated: the events of a start come in the order Starting, created,
\* chunks, running:false, and no event with running:false reaches the caller
\* between 'Starting...' and the end of that sandbox's output stream.
C5_NoNotRunningBeforeEnd ==
    /\ \A t \in StartTasks : tasks[t].sent \in SentOrders
    /\ last.ev \in NotRunningEvents =>
          \A t \in StartTasks :
              (Provisioned(t) /\ t # last.t) => tasks[t].conn \notin last.to

\* C5 amended: the events emitted for one start come in the order
\* 'Starting...', then only after a successful creation 'Container created!',
\* then chunks, then the terminal running:false; each goes to the project's
\* subscriber set, and 'Starting...' reaches the caller.
C5_OwnEventsInOrder ==
    /\ \A t \in StartTasks :
          /\ tasks[t].sent \in SentOrders
          /\ (Len(tasks[t].sent) >= 2 /\ tasks[t].sent[2] = "created") => cst[t] # "none"
    /\ last.ev \in {"starting", "created", "chunk", "end", "fail500"} =>
          last.to = Members(rooms, last.pid)
    /\ last.ev = "starting" => tasks[last.t].conn \in last.to

\* C5 witness: a start has emitted the whole sequence, and the caller got the
\* terminal event.
C5_Witness ==
    /\ last.ev = "end"
    /\ tasks[last.t].sent = <<"starting", "created", "chunk", "end">>
    /\ tasks[last.t].conn \in last.to

\* C6: every start resolves, for the originating connection, to a 400, a 404
\* or an event with running:false, also when the stream attachment fails: a
\* start whose attach callback has failed has resolved.
C6_FailurePathsResolve ==
    \A t \in StartTasks : tasks[t].pc = "fault" => tasks[t].resolved

C8_StopWithoutSandbox ==
    /\ \A t \in StopTasks :
          /\ tasks[t].pc # "fault"
          /\ tasks[t].pc = "done" => tasks[t].resolved
          /\ tasks[t].pc \in {"kill_req", "kill_resp", "remove_req", "remove_resp", "done"}
    /\ (last.t \in StopTasks /\ last.ev # "none") =>
          (last.ev = "stopack" /\ last.to = {tasks[last.t].conn})

\* C8 witness: kill and remove both failed because no sandbox of that name
\* existed, and the acknowledgement went out.
C8_Witness ==
    /\ last.ev = "stopack" /\ last.td = <<"fail", "fail">>
    /\ Named(last.pid) = {}
    /\ tasks[last.t].pc = "done"

\* the start command recorded in `last` has a missing projectId, language or
\* schoolId, or an unsupported language
BadStartCmd(cmd) ==
    /\ cmd # <<>>
    /\ cmd[1] = "start"
    /\ (cmd[3] = Absent \/ cmd[4] \notin SupportedLanguages \/ cmd[5] = Absent)

\* C9: a start with projectId, language or schoolId missing, or an unsupported
\* language, sends only {status:400} to the caller and changes no state: no
\* sandbox, no handler (hence no code fetch) and no membership changes.
C9_InvalidStartNoEffect ==
    [][ BadStartCmd(last'.cmd) =>
            /\ last'.ev = "400"
            /\ last'.to = {last'.cmd[2]}
            /\ UNCHANGED <<cst, rooms, tasks, lastJoin>> ]_vars

\* C9 witness: a start without schoolId for a project whose sandbox is live
\* and has a subscriber was answered with 400.
C9_Witness ==
    /\ BadStartCmd(last.cmd)
    /\ last.cmd[3] \in Projects /\ last.cmd[4] = "python" /\ last.cmd[5] = Absent
    /\ last.ev = "400"
    /\ Named(last.cmd[3]) # {}
    /\ Members(rooms, last.cmd[3]) # {}

\* C10: when the code fetch of a valid start fails, {status:404} goes to the
\* originating connection only and nothing else changes: no sandbox is created
\* or torn down, and no membership changes.
C10_FetchFailureNoEffect ==
    [][ \A t \in Tasks :
            (tasks[t].pc = "clone" /\ tasks'[t].pc = "done") =>
                /\ last'.ev = "404"
                /\ last'.to = {tasks[t].conn}
                /\ UNCHANGED <<cst, rooms, lastJoin, ncmds>>
                /\ \A u \in Tasks \ {t} : tasks'[u] = tasks[u] ]_vars

\* C10 witness: the fetch failed for a project whose sandbox is live while
\* the caller is subscribed to it; sandbox and membership are still there.
C10_Witness ==
    /\ last.ev = "404"
    /\ Named(last.pid) # {}
    /\ last.pid \in rooms[tasks[last.t].conn]

\* a start whose createContainer callback got an err
CreateFailedTasks ==
    {t \in StartTasks : Len(tasks[t].sent) >= 2 /\ tasks[t].sent[2] = "fail500"}

\* C11: when sandbox creation fails, the failure event with running:false
\* goes to the project's whole subscriber set, and that start is over: no
\* container.start, no stream attachment, no relay, no sandbox of its own and
\* no second creation request.
C11_CreateFailureEndsStart ==
    /\ last.ev = "fail500" =>
          /\ last.to = Members(rooms, last.pid)
          /\ last.t \in CreateFailedTasks
    /\ \A t \in CreateFailedTasks :
          /\ tasks[t].pc = "done"
          /\ tasks[t].sent = <<"starting", "fail500">>
          /\ tasks[t].startReq = "none"
          /\ tasks[t].stream = "none"
          /\ cst[t] = "none"
          /\ tasks[t].nTd = 0 /\ tasks[t].nSave = 0

\* C11 witness: the creation of a second start of the same project failed and
\* both subscribers of the project were told.
C11_Witness ==
    /\ last.ev = "fail500"
    /\ last.to = Conns
    /\ tasks[last.t].pc = "done"

\* C12 as stated: right after a start has emitted 'Container created!
\* Mounting...', exactly one live sandbox named projectId exists and it is
\* the one this start created.
C12_ExactlyOwnSandbox ==
    last.ev = "created" => Named(last.pid) = {last.t}

\* C12 amended: right after a start has emitted 'Container created!
\* Mounting...', its sandbox has been created, at most one live sandbox named
\* projectId exists, and it is this start's own unless a teardown of the same
\* projectId has removed that one since its creation.
C12_OwnSandboxUnlessRemoved ==
    last.ev = "created" =>
        /\ cst[last.t] \in {"created", "removed"}
        /\ Cardinality(Named(last.pid)) <= 1
        /\ cst[last.t] = "created" => Named(last.pid) = {last.t}

\* C12 witness: a second start of a project has replaced the first sandbox,
\* and right after its success events its own sandbox is the only one.
C12_Witness ==
    /\ last.ev = "created"
    /\ Named(last.pid) = {last.t}
    /\ \E u \in StartTasks \ {last.t} :
          tasks[u].pid = last.pid /\ cst[u] = "removed"

\* the number of terminal events a start has emitted
EndsSent(t) == Cardinality({i \in 1 .. Len(tasks[t].sent) : tasks[t].sent[i] = "end"})

\* C13: for each sandbox whose stream was attached, the terminal event
\* {status:200, running:false} is emitted to the project's subscriber set
\* exactly once, when the stream has closed, and no chunk of that sandbox
\* follows it: the event is out exactly when the stream is marked closed, a
\* stream that has ended without it is still waited on by the relay, the
\* sandbox is then no longer running, and the event is the last one sent.
C13_TerminalEventOnce ==
    /\ \A t \in StartTasks :
          /\ EndsSent(t) = (IF tasks[t].stream = "closed" THEN 1 ELSE 0)
          /\ tasks[t].stream = "ended" => tasks[t].pc \in {"attach_resp", "relay"}
          /\ tasks[t].stream = "closed" =>
                /\ tasks[t].sent[Len(tasks[t].sent)] = "end"
                /\ cst[t] \in {"exited", "removed"}
    /\ last.ev = "end" => last.to = Members(rooms, last.pid)
    /\ last.ev = "chunk" => tasks[last.t].stream = "open"

\* C13 witness: a stop killed the sandbox, and the terminal event of its
\* relay has just gone to a subscriber, after a chunk.
C13_Witness ==
    /\ last.ev = "end" /\ last.to # {}
    /\ tasks[last.t].sent = <<"starting", "created", "chunk", "end">>
    /\ \E s \in StopTasks : tasks[s].pid = last.pid /\ tasks[s].kres = "ok"

\* a step in which the runtime processes a kill or remove request of task u
TeardownStepOf(u) ==
    /\ tasks[u].pc \in {"kill_req", "remove_req", "ekill_req", "eremove_req"}
    /\ tasks'[u].pc # tasks[u].pc

\* C14: a stop of projectId that completes while a start of the same
\* projectId is between its own teardown and the creation of its sandbox does
\* not cancel that start: the creation request is still answered with a
\* sandbox, and from then on the state of that sandbox is changed by a
\* teardown only if the teardown belongs to a later stop, to a later start,
\* or to the end of the sandbox's own stream.
C14_StartSurvivesStop ==
    [][\A s \in StopTasks : \A t \in tasks[s].inflight :
          /\ (tasks[t].pc = "create_req" /\ tasks'[t].pc # "create_req")
                => cst'[t] = "created"
          /\ \A u \in Tasks :
                (TeardownStepOf(u) /\ cst'[t] # cst[t]) =>
                    \/ tasks[u].kind = "stop" /\ u > s
                    \/ tasks[u].kind = "start" /\ u > t
                          /\ tasks[u].pc \in {"kill_req", "remove_req"}
                    \/ u = t /\ tasks[u].pc \in {"ekill_req", "eremove_req"}
      ]_vars

C16_StdinRejectedIffAbsent ==
    /\ (last.cmd # <<>> /\ last.cmd[1] = "stdin") =>
          /\ last.ev = "400" <=> (last.cmd[3] = Absent \/ last.cmd[4] = Absent)
          /\ last.ev = "400" => last.to = {last.cmd[2]}
          /\ last.ev # "400" =>
                /\ last.ev = "none"
                /\ tasks[last.t].kind = "stdin" /\ tasks[last.t].pc = "sattach_req"
    /\ \A t \in Tasks :
          (tasks[t].kind = "stdin" /\ last.t = t /\ tasks[t].pc = "done") =>
              /\ last.ev = "none"
              /\ last.wr = {u \in Named(tasks[t].pid) : cst[u] \in {"created", "running"}}

\* C17: every connection is in at most one room, namely the room of its most
\* recent join (none before its first), and right after a start has passed
\* validation and code fetch and joined, its connection's rooms are exactly
\* {projectId}.
C17_OneRoomPerConnection ==
    /\ \A c \in Conns :
          /\ Cardinality(rooms[c]) <= 1
          /\ rooms[c] = IF lastJoin[c] = "none" THEN {} ELSE {lastJoin[c]}
    /\ last.ev = "starting" =>
          /\ rooms[tasks[last.t].conn] = {last.pid}
          /\ tasks[last.t].pid = last.pid

\* C17 witness: a connection that was in the room of one project starts
\* another project and ends up in that project's room only.
C17_Witness ==
    /\ last.ev = "starting"
    /\ rooms[tasks[last.t].conn] = {last.pid}
    /\ \E u \in StartTasks :
          /\ tasks[u].conn = tasks[last.t].conn
          /\ tasks[u].pid # last.pid
          /\ tasks[u].sent # <<>>

\* C18: the rooms of a connection change only in the step in which a start
\* handler of that same connection, having finished its containerStop, leaves
\* all rooms and joins its projectId; every other step (stop and stdin
\* handlers, starts of other connections, the runtime, output and stream-end
\* callbacks, provisioning failures) leaves them as they are.
C18_OnlyOwnStartChangesRooms ==
    [][\A c \in Conns :
          rooms'[c] # rooms[c] =>
              \E t \in StartTasks :
                  /\ tasks[t].conn = c
                  /\ tasks[t].pc = "remove_resp" /\ tasks'[t].pc = "create_req"
                  /\ rooms'[c] = {tasks[t].pid}
                  /\ \A d \in Conns \ {c} : rooms'[d] = rooms[d]
      ]_vars

\* C18 witness: a stop for a project has just been acknowledged to one
\* connection while another connection is, and stays, in that project's room.
C18_Witness ==
    /\ last.ev = "stopack"
    /\ \E c \in Conns \ {tasks[last.t].conn} : rooms[c] = {last.pid}

\* C19: a kill or remove request of the containerStop that the stream 'end'
\* callback of a sandbox runs changes the state of no other sandbox than the
\* one whose stream ended.
C19_RelayEndTearsDownOwnOnly ==
    [][\A t \in StartTasks :
          (tasks[t].pc \in {"ekill_req", "eremove_req"} /\ tasks'[t].pc # tasks[t].pc)
              => \A u \in Tasks \ {t} : cst'[u] = cst[u]
      ]_vars

\* C20: whenever the relay's terminal event or a provisioning-failure event
\* (both carry running:false) has just been delivered to the subscribers of
\* a project, no sandbox named projectId is running.
C20_NotRunningMeansNotRunning ==
    (last.ev \in {"end", "fail500"} /\ last.to # {}) =>
        \A u \in Named(last.pid) : cst[u] # "running"

====
